---- MODULE Spec2Model ----
(***************************************************************************)
(* Selection engine of Dance (src/api/selections.ts): the batch transform  *)
(* runner (filterSelections / mapSelections / updateSelections and         *)
(* updateSelections.withFallback) and setSelections, run against an        *)
(* editing context that owns the current selection set.                    *)
(*                                                                         *)
(* One call is in flight at a time (the engine assumes that its caller     *)
(* serializes commands).  The synchronous part of a call is one step; a    *)
(* suspended result settles in its own step, in any order, and the         *)
(* continuation scheduled with context.then runs in a last step.           *)
(***************************************************************************)
EXTENDS Integers, Sequences, FiniteSets, TLC

\* Largest number of selections of a selection set or argument array.
MaxSelections == 2

----------------------------------------------------------------------------
\* Values

Pos(line, character) == [line |-> line, character |-> character]

Sel(anchor, active) == [anchor |-> anchor, active |-> active]

\* The two selections of the documentation examples, over "foo 123".
SelFoo == Sel(Pos(0, 0), Pos(0, 3))
SelNum == Sel(Pos(0, 4), Pos(0, 7))

SelPool == {SelFoo, SelNum}

\* A JavaScript value as the runner sees it: undefined, a boolean, a
\* vscode.Selection, a one-element array [selection] (a fallback), a pending
\* Thenable, or some other object.
Undefined == [tag |-> "undefined", of |-> <<>>]
BoolV(b) == [tag |-> IF b THEN "true" ELSE "false", of |-> <<>>]
SelV(s) == [tag |-> "selection", of |-> <<s>>]
FallbackV(s) == [tag |-> "fallback", of |-> <<s>>]
PromiseV == [tag |-> "promise", of |-> <<>>]
OtherV == [tag |-> "other", of |-> <<>>]

\* JavaScript truthiness of a value.
Truthy(v) == v.tag \notin {"undefined", "false"}

\* Array.isArray(value) on an element of a result array.
IsArray(v) == v.tag = "fallback"

\* typeof value.then === "function"
IsThenable(v) == v.tag = "promise"

SeqsUpTo(S, n) == UNION {[1..k -> S] : k \in 0..n}

NonEmptySeqsUpTo(S, n) == UNION {[1..k -> S] : k \in 1..n}

\* The per-item function of one call, as its behaviour at each index
\* (entry i + 1 is the behaviour at index i): it returns val, throws,
\* returns a Thenable that resolves to val, or one that rejects.
Item(mode, ok, val) == [mode |-> mode, ok |-> ok, val |-> val]

ItemsOver(vals) ==
  {Item(m, TRUE, v) : m \in {"sync", "async"}, v \in vals}
    \cup {Item(m, FALSE, Undefined) : m \in {"sync", "async"}}

SelectionValues == {SelV(s) : s \in SelPool}

MapperValues == {Undefined} \cup SelectionValues

FallbackValues == MapperValues \cup {FallbackV(s) : s \in SelPool}

PredicateValues == {BoolV(TRUE), BoolV(FALSE)}

\* What f(i, selection, document) evaluates to when it does not throw.
Returned(item) == IF item.mode = "sync" THEN item.val ELSE PromiseV

\* f(i, selection, document) throws.
Throws(item) == item.mode = "sync" /\ ~item.ok

----------------------------------------------------------------------------
\* The editing context and the call in flight

VARIABLES
  selections,  \* context.selections: the current selection set
  revealLog,   \* the selections revealed by the call in flight (or last ended)
  op,          \* the operation called
  pc,          \* "idle", "pending" (continuation scheduled, not run), "done"
  f,           \* the call's per-item function (see Item)
  input,       \* the array the call works on (setSelections: its argument)
  before,      \* context.selections when the call was made
  callLog,     \* the indices f was called with, in call order
  settleLog,   \* the indices whose Thenable has settled, in settling order
  scheduled,   \* the number of continuations given to context.then
  result,      \* the array returned, or the one the returned Thenable gave
  err,         \* the error thrown or rejected with, or "none"
  via,         \* "sync": returned or thrown; "async": resolved or rejected
  merge,       \* a use of mergeOverlappingSelections: arguments and results
  mode,        \* a use of toCharacterMode / fromCharacterMode
  algebra,     \* a use of rotateSelections, selectionsLines or Selections.*
  registers,   \* a RegisterSet: its registers and the last get
  concurrent   \* what other code did to the array passed and to the context
               \* while the call in flight was pending

vars == <<selections, revealLog, op, pc, f, input, before, callLog, settleLog,
          scheduled, result, err, via, merge, mode, algebra, registers,
          concurrent>>

\* The variables of the editing context and of the call in flight.
runnerVars == <<selections, revealLog, op, pc, f, input, before, callLog,
                settleLog, scheduled, result, err, via>>

\* No use of the merge engine, or of the mode translator, under way.
NoMerge == [stage |-> "none"]
NoMode == [stage |-> "none"]

\* No use of the selection functions, and no RegisterSet, under way.
NoAlgebra == [stage |-> "none"]
NoRegisters == [stage |-> "none"]

\* No other code at work: argument is the array passed to the call in flight
\* as it is now, committed whether the context's selections were set by
\* another command since the call was made.
NoConcurrent == [stage |-> "none", argument |-> <<>>, committed |-> FALSE]

\* What the synchronous part of filter / map byIndex ends with: an array
\* ("returned"), an exception out of f ("threw"), or a Thenable ("pending").
Outcome(outcome, results, log, thens) ==
  [outcome |-> outcome, result |-> results, callLog |-> log, scheduled |-> thens]

\* What running setSelections (directly or as the last step of an update)
\* ends with.
Ended(e, sels, reveals, returned) ==
  [err |-> e, selections |-> sels, reveals |-> reveals, returned |-> returned]

----------------------------------------------------------------------------
\* NotASelectionError.throwIfNotASelectionArray, of src/api/errors.ts, as the
\* error table of the specification and the documentation tests of
\* setSelections describe it: EmptySelectionsError for an empty array,
\* NotASelectionError for an element that is no selection.
ThrowIfNotASelectionArray(value) ==
  IF Len(value) = 0 THEN "EmptySelectionsError"
  ELSE IF \E i \in 1..Len(value) : value[i].tag # "selection"
       THEN "NotASelectionError"
       ELSE "none"

\* setSelections without the check of its argument.
SetSelectionsUnchecked(arr, cur) ==
  Ended("none", arr, IF Len(arr) > 0 THEN <<arr[1]>> ELSE <<>>, arr)

\* setSelections assigning context.selections before it checks its argument.
SetSelectionsAssignsFirst(arr, cur) ==
  LET e == ThrowIfNotASelectionArray(arr) IN
  IF e # "none"
  THEN Ended(e, arr, <<>>, <<>>)
  ELSE Ended("none", arr, <<arr[1]>>, arr)

\* setSelections revealing the last selection instead of the first.
SetSelectionsRevealsLast(arr, cur) ==
  LET e == ThrowIfNotASelectionArray(arr) IN
  IF e # "none"
  THEN Ended(e, cur, <<>>, <<>>)
  ELSE Ended("none", arr, <<arr[Len(arr)]>>, arr)

\* setSelections(selections, context)
SetSelections(arr, cur) ==
  LET e == ThrowIfNotASelectionArray(arr) IN
  IF e # "none"
  THEN Ended(e, cur, <<>>, <<>>)
  ELSE Ended("none", arr, <<arr[1]>>, arr)

----------------------------------------------------------------------------
\* mapSelections.byIndex

\* The synchronous loop giving back what it has when f throws.
RECURSIVE MapSyncLoopPartial(_, _, _, _)
MapSyncLoopPartial(fn, i, results, log) ==
  IF i >= Len(fn) THEN Outcome("returned", results, log, 0)
  ELSE IF Throws(fn[i + 1]) THEN Outcome("returned", results, Append(log, i), 0)
  ELSE LET value == Returned(fn[i + 1]) IN
       MapSyncLoopPartial(fn, i + 1,
                          IF value # Undefined THEN Append(results, value)
                          ELSE results,
                          Append(log, i))

\* The loop of the synchronous path, from index i on.
RECURSIVE MapSyncLoop(_, _, _, _)
MapSyncLoop(fn, i, results, log) ==
  IF i >= Len(fn) THEN Outcome("returned", results, log, 0)
  ELSE IF Throws(fn[i + 1]) THEN Outcome("threw", <<>>, Append(log, i), 0)
  ELSE LET value == Returned(fn[i + 1]) IN
       MapSyncLoop(fn, i + 1,
                   IF value # Undefined THEN Append(results, value) ELSE results,
                   Append(log, i))

\* The promise loop giving context.then one continuation for each promise.
RECURSIVE MapAsyncLoopThenEach(_, _, _)
MapAsyncLoopThenEach(fn, i, log) ==
  IF i >= Len(fn) THEN Outcome("pending", <<>>, log, Len(fn))
  ELSE IF Throws(fn[i + 1]) THEN Outcome("threw", <<>>, Append(log, i), 0)
  ELSE MapAsyncLoopThenEach(fn, i + 1, Append(log, i))

\* The loop that collects the promises, from index i on, and the
\* context.then(Promise.all(promises), ...) after it.
RECURSIVE MapAsyncLoop(_, _, _)
MapAsyncLoop(fn, i, log) ==
  IF i >= Len(fn) THEN Outcome("pending", <<>>, log, 1)
  ELSE IF Throws(fn[i + 1]) THEN Outcome("threw", <<>>, Append(log, i), 0)
  ELSE MapAsyncLoop(fn, i + 1, Append(log, i))

\* The synchronous part of mapSelections.byIndex(f, selections), with
\* Len(fn) = selections.length.
MapByIndex(fn) ==
  IF Throws(fn[1]) THEN Outcome("threw", <<>>, <<0>>, 0)
  ELSE LET firstResult == Returned(fn[1]) IN
       IF firstResult = Undefined \/ ~IsThenable(firstResult)
       THEN MapSyncLoop(fn, 1,
                        IF firstResult # Undefined THEN <<firstResult>> ELSE <<>>,
                        <<0>>)
       ELSE IF Len(fn) = 1
            THEN Outcome("pending", <<>>, <<0>>, 1)
            ELSE MapAsyncLoop(fn, 1, <<0>>)

\* The continuation keeping the undefined results.
MapContinuationKeepsAll(results, i, filteredResults) == results

\* The continuation putting each result in front of the earlier ones.
RECURSIVE MapContinuationPrepends(_, _, _)
MapContinuationPrepends(results, i, filteredResults) ==
  IF i >= Len(results) THEN filteredResults
  ELSE LET r == results[i + 1] IN
       MapContinuationPrepends(results, i + 1,
                               IF r # Undefined THEN <<r>> \o filteredResults
                               ELSE filteredResults)

\* The continuation of mapSelections.byIndex: (results) => filteredResults.
RECURSIVE MapContinuation(_, _, _)
MapContinuation(results, i, filteredResults) ==
  IF i >= Len(results) THEN filteredResults
  ELSE LET r == results[i + 1] IN
       MapContinuation(results, i + 1,
                       IF r # Undefined THEN Append(filteredResults, r)
                       ELSE filteredResults)

----------------------------------------------------------------------------
\* filterSelections.byIndex

\* The synchronous loop calling the predicate a second time for each
\* selection it keeps.
RECURSIVE FilterSyncLoopCallsTwice(_, _, _, _, _)
FilterSyncLoopCallsTwice(fn, sels, i, resultingSelections, log) ==
  IF i >= Len(sels) THEN Outcome("returned", resultingSelections, log, 0)
  ELSE IF Throws(fn[i + 1]) THEN Outcome("threw", <<>>, Append(log, i), 0)
  ELSE FilterSyncLoopCallsTwice(fn, sels, i + 1,
                                IF Truthy(Returned(fn[i + 1]))
                                THEN Append(resultingSelections, sels[i + 1])
                                ELSE resultingSelections,
                                IF Truthy(Returned(fn[i + 1]))
                                THEN log \o <<i, i>>
                                ELSE Append(log, i))

\* The loop of the synchronous path, from index i on.
RECURSIVE FilterSyncLoop(_, _, _, _, _)
FilterSyncLoop(fn, sels, i, resultingSelections, log) ==
  IF i >= Len(sels) THEN Outcome("returned", resultingSelections, log, 0)
  ELSE IF Throws(fn[i + 1]) THEN Outcome("threw", <<>>, Append(log, i), 0)
  ELSE FilterSyncLoop(fn, sels, i + 1,
                      IF Truthy(Returned(fn[i + 1]))
                      THEN Append(resultingSelections, sels[i + 1])
                      ELSE resultingSelections,
                      Append(log, i))

\* The loop that collects the promises, from index i on, and the
\* context.then(Promise.all(promises), ...) after it.
RECURSIVE FilterAsyncLoop(_, _, _, _)
FilterAsyncLoop(fn, sels, i, log) ==
  IF i >= Len(sels) THEN Outcome("pending", <<>>, log, 1)
  ELSE IF Throws(fn[i + 1]) THEN Outcome("threw", <<>>, Append(log, i), 0)
  ELSE FilterAsyncLoop(fn, sels, i + 1, Append(log, i))

\* The synchronous part of filterSelections.byIndex(predicate, selections).
FilterByIndex(fn, sels) ==
  IF Throws(fn[1]) THEN Outcome("threw", <<>>, <<0>>, 0)
  ELSE LET firstSelection == sels[1]
           firstResult == Returned(fn[1]) IN
       IF firstResult.tag \in {"true", "false"}
       THEN IF Len(sels) = 1
            THEN Outcome("returned",
                         IF Truthy(firstResult) THEN <<firstResult>> ELSE <<>>,
                         <<0>>, 0)
            ELSE FilterSyncLoop(fn, sels, 1,
                                IF Truthy(firstResult) THEN <<firstSelection>>
                                ELSE <<>>,
                                <<0>>)
       ELSE IF Len(sels) = 1
            THEN Outcome("pending", <<>>, <<0>>, 1)
            ELSE FilterAsyncLoop(fn, sels, 1, <<0>>)

\* savedSelections read from the array passed, as it is when the
\* continuation runs.
SavedSelectionsLive(live, copy) == live

\* savedSelections = selections.slice(), copy being the elements of the
\* array passed when the call was made and live its elements now.
SavedSelections(live, copy) == copy

\* The continuation of filterSelections.byIndex:
\* (results) => resultingSelections, over savedSelections.
RECURSIVE FilterContinuation(_, _, _, _)
FilterContinuation(results, savedSelections, i, resultingSelections) ==
  IF i >= Len(results) THEN resultingSelections
  ELSE FilterContinuation(results, savedSelections, i + 1,
                          IF Truthy(results[i + 1])
                          THEN Append(resultingSelections, savedSelections[i + 1])
                          ELSE resultingSelections)

----------------------------------------------------------------------------
\* updateSelections and updateSelections.withFallback

\* mapFallbackSelections keeping the fallbacks next to the real selections.
MapFallbackSelectionsKeepsAll(values) ==
  LET kept == SelectSeq(values, LAMBDA v : v # Undefined)
  IN [i \in 1..Len(kept) |->
        IF kept[i].tag = "fallback" THEN SelV(kept[i].of[1]) ELSE kept[i]]

\* mapFallbackSelections(values)
MapFallbackSelections(values) ==
  LET selectionsCount ==
        Cardinality({i \in 1..Len(values) :
                       ~IsArray(values[i]) /\ values[i] # Undefined})
      fallbackSelectionsCount ==
        Cardinality({i \in 1..Len(values) : IsArray(values[i])})
  IN IF selectionsCount > 0
     THEN SelectSeq(values, LAMBDA v : v # Undefined /\ ~IsArray(v))
     ELSE IF fallbackSelectionsCount > 0
          THEN LET fallbacks == SelectSeq(values, IsArray)
               IN [i \in 1..Len(fallbacks) |-> SelV(fallbacks[i].of[1])]
          ELSE <<>>

\* updateSelections committing only when the context's selections are still
\* those of the time of the call.
UpdateSelectionsThenIfUnchanged(xs, cur) ==
  IF cur = before THEN SetSelections(xs, cur) ELSE Ended("none", cur, <<>>, xs)

\* What updateSelections does with the array mapSelections gave:
\* setSelections(selections, context).
UpdateSelectionsThen(xs, cur) == SetSelections(xs, cur)

\* What withFallback does with the array mapSelections gave:
\* setSelections(mapFallbackSelections(values)).
WithFallbackThen(values, cur) == SetSelections(MapFallbackSelections(values), cur)

----------------------------------------------------------------------------
\* Steps

\* What a call does with the array its runner produced: filter and map hand
\* it back, the updates commit it.
Complete(o, values, cur) ==
  IF o = "update" THEN UpdateSelectionsThen(values, cur)
  ELSE IF o = "withFallback" THEN WithFallbackThen(values, cur)
  ELSE Ended("none", cur, <<>>, values)

\* The values Promise.all(promises) resolves to: each Thenable's value, and
\* each element that is no Thenable as it is.
Resolved(fn) == [i \in 1..Len(fn) |-> fn[i].val]

\* The Thenables a pending call waits for (as entries of f).
Awaited == {i \in 1..Len(f) : f[i].mode = "async"}

Settled == {settleLog[k] : k \in 1..Len(settleLog)}

\* Some awaited Thenable has rejected: Promise.all rejects then.
Rejected == \E i \in Settled : ~f[i].ok

\* The synchronous part of a call of the runner, m being what filter / map
\* byIndex ended with.
Start(o, fn, m) ==
  /\ op' = o
  /\ f' = fn
  /\ input' = selections
  /\ before' = selections
  /\ callLog' = m.callLog
  /\ scheduled' = m.scheduled
  /\ settleLog' = <<>>
  /\ IF m.outcome = "pending"
     THEN /\ pc' = "pending"
          /\ via' = "async"
          /\ err' = "none"
          /\ result' = <<>>
          /\ revealLog' = <<>>
          /\ UNCHANGED selections
     ELSE IF m.outcome = "threw"
     THEN /\ pc' = "done"
          /\ via' = "sync"
          /\ err' = "PerItemError"
          /\ result' = <<>>
          /\ revealLog' = <<>>
          /\ UNCHANGED selections
     ELSE LET c == Complete(o, m.result, selections) IN
          /\ pc' = "done"
          /\ via' = "sync"
          /\ err' = c.err
          /\ result' = c.returned
          /\ revealLog' = c.reveals
          /\ selections' = c.selections

\* setSelections(arr), for any argument array arr
SetSelectionsCall ==
  /\ pc = "idle"
  /\ \E arr \in SeqsUpTo(SelectionValues \cup {OtherV}, MaxSelections) :
       LET c == SetSelections(arr, selections) IN
       /\ op' = "set"
       /\ f' = <<>>
       /\ input' = arr
       /\ before' = selections
       /\ callLog' = <<>>
       /\ scheduled' = 0
       /\ settleLog' = <<>>
       /\ pc' = "done"
       /\ via' = "sync"
       /\ err' = c.err
       /\ result' = c.returned
       /\ revealLog' = c.reveals
       /\ selections' = c.selections

\* The per-item functions over n selections that yield values of vals.
Functions(n, vals) == [1..n -> ItemsOver(vals)]

\* filterSelections.byIndex(predicate) over the current selections
FilterSelectionsCall ==
  /\ pc = "idle"
  /\ \E fn \in Functions(Len(selections), PredicateValues) :
       Start("filter", fn, FilterByIndex(fn, selections))

\* mapSelections.byIndex(f) over the current selections
MapSelectionsCall ==
  /\ pc = "idle"
  /\ \E fn \in Functions(Len(selections), MapperValues) :
       Start("map", fn, MapByIndex(fn))

\* updateSelections.byIndex(f); updateSelections(f) differs by the text it
\* hands to f only.
UpdateSelectionsCall ==
  /\ pc = "idle"
  /\ \E fn \in Functions(Len(selections), MapperValues) :
       Start("update", fn, MapByIndex(fn))

\* updateSelections.withFallback.byIndex(f)
WithFallbackCall ==
  /\ pc = "idle"
  /\ \E fn \in Functions(Len(selections), FallbackValues) :
       Start("withFallback", fn, MapByIndex(fn))

\* The Thenable that f returned for index i - 1 resolves or rejects.
Settle(i) ==
  /\ pc = "pending"
  /\ i \in Awaited \ Settled
  /\ settleLog' = Append(settleLog, i)
  /\ UNCHANGED <<selections, revealLog, op, pc, f, input, before, callLog,
                 scheduled, result, err, via>>

\* Promise.all has settled: the continuation given to context.then runs on
\* the resolved values, or the returned Thenable rejects.
Resume ==
  /\ pc = "pending"
  /\ Rejected \/ Settled = Awaited
  /\ pc' = "done"
  /\ IF Rejected
     THEN /\ err' = "PerItemError"
          /\ UNCHANGED <<selections, revealLog, result>>
     ELSE LET values == IF op = "filter"
                        THEN FilterContinuation(Resolved(f),
                                                SavedSelections(concurrent.argument, input),
                                                0, <<>>)
                        ELSE MapContinuation(Resolved(f), 0, <<>>)
              c == Complete(op, values, selections) IN
          /\ err' = c.err
          /\ result' = c.returned
          /\ revealLog' = c.reveals
          /\ selections' = c.selections
  /\ UNCHANGED <<op, f, input, before, callLog, settleLog, scheduled, via>>

\* The caller has taken the outcome of the call; the next command may run.
Return ==
  /\ pc = "done"
  /\ pc' = "idle"
  /\ op' = "none"
  /\ f' = <<>>
  /\ input' = <<>>
  /\ before' = selections
  /\ callLog' = <<>>
  /\ settleLog' = <<>>
  /\ scheduled' = 0
  /\ result' = <<>>
  /\ err' = "none"
  /\ via' = "sync"
  /\ revealLog' = <<>>
  /\ UNCHANGED selections

\* The context before a command runs, with the selections sels.
RunnerInit(sels) ==
  /\ selections = sels
  /\ revealLog = <<>>
  /\ op = "none"
  /\ pc = "idle"
  /\ f = <<>>
  /\ input = <<>>
  /\ before = sels
  /\ callLog = <<>>
  /\ settleLog = <<>>
  /\ scheduled = 0
  /\ result = <<>>
  /\ err = "none"
  /\ via = "sync"

Init ==
  /\ merge = NoMerge
  /\ mode = NoMode
  /\ algebra = NoAlgebra
  /\ registers = NoRegisters
  /\ concurrent = NoConcurrent
  /\ \E sels \in NonEmptySeqsUpTo(SelectionValues, MaxSelections) :
       RunnerInit(sels)

Next ==
  \/ SetSelectionsCall /\ UNCHANGED <<merge, mode, algebra, registers, concurrent>>
  \/ FilterSelectionsCall /\ UNCHANGED <<merge, mode, algebra, registers, concurrent>>
  \/ MapSelectionsCall /\ UNCHANGED <<merge, mode, algebra, registers, concurrent>>
  \/ UpdateSelectionsCall /\ UNCHANGED <<merge, mode, algebra, registers, concurrent>>
  \/ WithFallbackCall /\ UNCHANGED <<merge, mode, algebra, registers, concurrent>>
  \/ \E i \in 1..MaxSelections :
       Settle(i) /\ UNCHANGED <<merge, mode, algebra, registers, concurrent>>
  \/ Resume /\ UNCHANGED <<merge, mode, algebra, registers, concurrent>>
  \/ Return /\ UNCHANGED <<merge, mode, algebra, registers, concurrent>>

Spec == Init /\ [][Next]_vars

----------------------------------------------------------------------------
\* Properties of the batch transform runner

RunnerOps == {"filter", "map", "update", "withFallback"}

\* The value each index yields, immediately or by resolution.
ItemValues == [i \in 1..Len(f) |-> f[i].val]

\* What f returns at each index at the time of the call.
ImmediateValues == [i \in 1..Len(f) |-> IF f[i].mode = "sync" THEN f[i].val ELSE PromiseV]

Kept(values) == SelectSeq(values, LAMBDA v : v # Undefined)

\* No call of f throws and no Thenable rejects.
AllOk == \A i \in 1..Len(f) : f[i].ok

\* f is synchronous at every index or suspending at every index.
Uniform == \A i \in 1..Len(f) : f[i].mode = f[1].mode

\* The indices of f (as entries of f) that were called.
Called == {callLog[k] + 1 : k \in 1..Len(callLog)}

ThrowAt == \E i \in Called : Throws(f[i])

RejectionAt == \E i \in Called : f[i].mode = "async" /\ ~f[i].ok

SuspensionOccurred == \E i \in Called : f[i].mode = "async"

\* C1: the current selection set of the context always holds at least one
\* selection, whatever calls were made and however they ended.
C1_NeverEmpty ==
  /\ Len(selections) >= 1
  /\ \A i \in 1..Len(selections) : selections[i].tag = "selection"

C1_Witness ==
  /\ pc = "done" /\ op = "update" /\ via = "async"
  /\ err = "EmptySelectionsError"

\* Every index yields undefined and the array to commit is empty: with
\* index 0 immediate, every later result is immediate too.
YieldsNothing ==
  \A i \in 1..Len(f) :
    /\ f[i].ok
    /\ f[i].val = Undefined
    /\ f[1].mode = "sync" => f[i].mode = "sync"

\* C2: an update or withFallback whose commit would leave the set empty
\* fails with EmptySelectionsError at commit time (thrown by a synchronous
\* call, rejected by an asynchronous one), without reveal, and the set is
\* the one before the call.
C2_EmptyCommitRejected ==
  (pc = "done" /\ op \in {"update", "withFallback"} /\ YieldsNothing)
    => /\ err = "EmptySelectionsError"
       /\ via = f[1].mode
       /\ selections = before
       /\ revealLog = <<>>

C2_Witness ==
  /\ pc = "done" /\ op = "withFallback" /\ YieldsNothing
  /\ Len(f) = 2 /\ via = "async" /\ err = "EmptySelectionsError"

\* C3 as stated: a throw or a rejection at any index reaches the caller,
\* synchronously if no suspension occurred and as a rejection otherwise, and
\* an update then neither commits nor reveals.
C3_FailurePropagatesByMode ==
  (pc = "done" /\ op \in {"filter", "map", "update"} /\ (ThrowAt \/ RejectionAt))
    => /\ err = "PerItemError"
       /\ via = (IF SuspensionOccurred THEN "async" ELSE "sync")
       /\ op = "update" => (selections = before /\ revealLog = <<>>)

\* C3, amended: a throw of f leaves the call synchronously, also after
\* earlier indices returned suspended results; when no call throws and index
\* 0 is suspended, a rejection makes the returned Thenable reject; an update
\* in which f throws or a suspended result rejects neither commits nor
\* reveals, and the set is the one before the call.
C3_FailurePropagates ==
  (pc = "done" /\ op \in {"filter", "map", "update"})
    => /\ ThrowAt => (err = "PerItemError" /\ via = "sync")
       /\ (~ThrowAt /\ f[1].mode = "async" /\ RejectionAt)
            => (err = "PerItemError" /\ via = "async")
       /\ (op = "update" /\ (ThrowAt \/ RejectionAt))
            => (err # "none" /\ selections = before /\ revealLog = <<>>)

C3_Witness ==
  /\ pc = "done" /\ op = "update" /\ Len(f) = 2
  /\ f[1].mode = "async" /\ f[1].ok /\ f[2].mode = "async" /\ ~f[2].ok
  /\ err = "PerItemError" /\ via = "async"

\* C4: setSelections of an array holding an element that is no selection
\* fails with NotASelectionError, with the set unchanged and nothing
\* revealed.
C4_NotASelectionRejected ==
  (pc = "done" /\ op = "set" /\ \E i \in 1..Len(input) : input[i].tag # "selection")
    => /\ err = "NotASelectionError"
       /\ via = "sync"
       /\ selections = before
       /\ revealLog = <<>>

C4_Witness ==
  /\ pc = "done" /\ op = "set"
  /\ input = <<SelV(SelNum), OtherV>>
  /\ before = <<SelV(SelFoo)>>
  /\ err = "NotASelectionError"

\* C5 as stated: map over a function that is immediate at some indices and
\* suspended at others, in any position, gives the array of the resolved
\* values that are not undefined, in index order.
C5_MixedSameAsSync ==
  (pc = "done" /\ op = "map" /\ AllOk)
    => (err = "none" /\ result = Kept(ItemValues))

\* C5, amended: that holds when index 0 is suspended (whatever the later
\* indices are) and when every index is immediate; when index 0 is immediate,
\* a later suspended result stays in the array as the unresolved Thenable.
C5_MixedByFirstResult ==
  (pc = "done" /\ op = "map" /\ AllOk)
    => /\ err = "none"
       /\ f[1].mode = "async" => result = Kept(ItemValues)
       /\ f[1].mode = "sync" => result = Kept(ImmediateValues)

C5_Witness ==
  /\ pc = "done" /\ op = "map" /\ AllOk /\ Len(f) = 2
  /\ f[1].mode = "async" /\ f[2].mode = "sync"
  /\ f[1].val # Undefined /\ f[2].val # Undefined
  /\ Len(result) = 2

\* The function that returns at once what fn yields at each index.
AsImmediate(fn) == [i \in 1..Len(fn) |-> Item("sync", fn[i].ok, fn[i].val)]

\* C6: whatever the order in which the suspended results settle, the
\* asynchronous path of map and of filter gives the array that the
\* synchronous path gives for the same values at each index.
C6_AsyncSameAsSyncPath ==
  (pc = "done" /\ op \in {"map", "filter"} /\ via = "async" /\ err = "none")
    => result = (IF op = "map"
                 THEN MapByIndex(AsImmediate(f)).result
                 ELSE FilterByIndex(AsImmediate(f), input).result)

\* The elements of seq at the indices where keep holds, from index i on.
RECURSIVE Pick(_, _, _)
Pick(seq, keep, i) ==
  IF i > Len(seq) THEN <<>>
  ELSE (IF keep[i] THEN <<seq[i]>> ELSE <<>>) \o Pick(seq, keep, i + 1)

\* C7: filter gives exactly the input selections whose predicate result is
\* truthy, in input order, for one selection as for several, with a
\* synchronous as with an asynchronous predicate.
C7_FilterKeepsTruthy ==
  (pc = "done" /\ op = "filter" /\ AllOk /\ Uniform)
    => /\ err = "none"
       /\ result = Pick(input, [i \in 1..Len(f) |-> Truthy(f[i].val)], 1)

\* The real selections and the fallback selections f yields, in index order.
Reals == SelectSeq(ItemValues, LAMBDA v : v.tag = "selection")

Fallbacks ==
  LET marked == SelectSeq(ItemValues, LAMBDA v : v.tag = "fallback")
  IN [i \in 1..Len(marked) |-> SelV(marked[i].of[1])]

\* All results of a withFallback call have been collected: nothing failed,
\* and no Thenable was left unresolved behind an immediate index 0.
Collected ==
  /\ pc = "done" /\ op = "withFallback" /\ AllOk
  /\ f[1].mode = "sync" => Uniform

\* C8: withFallback commits exactly the real selections, in input order,
\* when there is one, and otherwise exactly the fallback selections, in
\* input order, when there is one.
C8_FallbackProtocol ==
  Collected
    => /\ Reals # <<>>
            => (err = "none" /\ selections = Reals /\ result = Reals)
       /\ (Reals = <<>> /\ Fallbacks # <<>>)
            => (err = "none" /\ selections = Fallbacks /\ result = Fallbacks)

C8_Witness ==
  /\ Collected /\ Len(f) = 2
  /\ f[1].val.tag = "fallback" /\ f[2].val.tag = "selection"
  /\ selections = <<f[2].val>>

\* C9: a successful update leaves the set equal to the results that are not
\* undefined, in input order, gives that array back, and has revealed its
\* first selection, once.
C9_UpdateCommits ==
  (pc = "done" /\ op = "update")
    => /\ err = "none"
            => /\ selections = Kept(ItemValues)
               /\ result = Kept(ItemValues)
               /\ revealLog = <<Kept(ItemValues)[1]>>
               /\ via = f[1].mode
       /\ (AllOk /\ (f[1].mode = "sync" => Uniform) /\ Kept(ItemValues) # <<>>)
            => err = "none"

C9_Witness ==
  /\ pc = "done" /\ op = "update" /\ err = "none" /\ via = "async"
  /\ settleLog = <<2, 1>>
  /\ selections = <<SelV(SelNum), SelV(SelFoo)>>
  /\ before = <<SelV(SelFoo), SelV(SelNum)>>

\* C10: the runner calls f for index 0 first and then in ascending order,
\* each index at most once; when the result for index 0 is immediate and no
\* call throws, it has called f once for every index, scheduled no
\* continuation and returned synchronously.
C10_SynchronousPath ==
  (pc \in {"pending", "done"} /\ op \in RunnerOps)
    => /\ Len(callLog) >= 1
       /\ \A k \in 1..Len(callLog) : callLog[k] = k - 1
       /\ f[1].mode = "sync" => (pc = "done" /\ via = "sync" /\ scheduled = 0)
       /\ (f[1].mode = "sync" /\ ~ThrowAt) => Len(callLog) = Len(f)

C10_Witness ==
  /\ pc = "done" /\ op = "filter" /\ Len(f) = 2
  /\ f[1].mode = "sync" /\ f[1].val = BoolV(TRUE) /\ f[2].val = BoolV(TRUE)
  /\ f[2].mode = "sync" /\ AllOk
  /\ callLog = <<0, 1>> /\ scheduled = 0

\* C11: when the result for index 0 is suspended (and no call throws), the
\* runner has called f for every index by the time it suspends, whatever has
\* settled since, it has given context.then exactly one continuation, and
\* that continuation has run only with every awaited result settled.
C11_SuspendedPath ==
  (pc \in {"pending", "done"} /\ op \in RunnerOps /\ f[1].mode = "async" /\ ~ThrowAt)
    => /\ callLog = [k \in 1..Len(f) |-> k - 1]
       /\ scheduled = 1
       /\ via = "async"
       /\ (pc = "done" /\ err # "PerItemError") => Settled = Awaited

C11_Witness ==
  /\ pc = "pending" /\ op = "map" /\ Len(f) = 2
  /\ f[1].mode = "async" /\ f[2].mode = "async"
  /\ callLog = <<0, 1>> /\ settleLog = <<>> /\ scheduled = 1

----------------------------------------------------------------------------
\* Positions and selections as values

\* vscode.Position: isBefore, isBeforeOrEqual, isAfter, isAfterOrEqual.
IsBefore(p, q) ==
  p.line < q.line \/ (p.line = q.line /\ p.character < q.character)

IsBeforeOrEqual(p, q) == IsBefore(p, q) \/ p = q

IsAfter(p, q) == IsBefore(q, p)

IsAfterOrEqual(p, q) == IsBefore(q, p) \/ p = q

\* selection.start, selection.end, selection.isReversed (active before
\* anchor, as the data model of the specification has it).
StartOf(s) == IF IsBeforeOrEqual(s.anchor, s.active) THEN s.anchor ELSE s.active

EndOf(s) == IF IsBeforeOrEqual(s.anchor, s.active) THEN s.active ELSE s.anchor

IsReversed(s) == IsBefore(s.active, s.anchor)

\* Selections.fromStartEnd always giving a forward selection.
FromStartEndForward(start, end, reversed) == Sel(start, end)

\* Selections.fromStartEnd(start, end, reversed), given positions.
FromStartEnd(start, end, reversed) ==
  IF reversed THEN Sel(end, start) ELSE Sel(start, end)

----------------------------------------------------------------------------
\* mergeOverlappingSelections

\* The inner loop of mergeOverlappingSelections for the selection at index
\* i, from index j on.  a holds aStart, aEnd, aIsEmpty and changed, together
\* with ignoreSelections (ignore: the indices marked 1) and newSelections
\* (new, hasNew: whether it is defined); members records the indices merged
\* into the selection at i.
RECURSIVE MergeScan(_, _, _, _, _)
MergeScan(sels, alsoMergeConsecutiveSelections, i, j, a) ==
  IF j >= Len(sels) THEN a
  ELSE IF j \in a.ignore
  THEN MergeScan(sels, alsoMergeConsecutiveSelections, i, j + 1, a)
  ELSE
    LET b == sels[j + 1]
        bStart == StartOf(b)
        bEnd == EndOf(b)
        skip == MergeScan(sels, alsoMergeConsecutiveSelections, i, j + 1, a)
        absorbed(x) == [x EXCEPT !.ignore = @ \cup {j}, !.members = @ \cup {j}]
        restart(x) ==
          MergeScan(sels, alsoMergeConsecutiveSelections, i, i + 1,
                    [absorbed(x) EXCEPT !.changed = TRUE])
    IN
    IF a.aIsEmpty
    THEN IF bStart = bEnd
         THEN IF bStart = a.aStart
              THEN MergeScan(sels, alsoMergeConsecutiveSelections, i, j + 1,
                             [absorbed(a) EXCEPT !.changed = TRUE])
              ELSE skip
         ELSE IF IsBeforeOrEqual(bStart, a.aStart) /\ IsAfterOrEqual(bEnd, bStart)
              THEN MergeScan(sels, alsoMergeConsecutiveSelections, i, j + 1,
                             [absorbed(a) EXCEPT !.aStart = bStart,
                                                 !.aEnd = bEnd,
                                                 !.aIsEmpty = FALSE,
                                                 !.changed = TRUE])
              ELSE skip
    ELSE IF /\ IsAfterOrEqual(a.aStart, bStart)
            /\ \/ IsBefore(a.aStart, bEnd)
               \/ (alsoMergeConsecutiveSelections /\ a.aStart = bEnd)
    THEN IF IsBeforeOrEqual(a.aEnd, bEnd)
         THEN restart([a EXCEPT !.aStart = bStart, !.aEnd = bEnd])
         ELSE IF a.aStart = bStart
              THEN MergeScan(sels, alsoMergeConsecutiveSelections, i, j + 1,
                             [absorbed(a) EXCEPT
                                !.new = IF a.hasNew THEN @ ELSE SubSeq(sels, 1, i),
                                !.hasNew = TRUE])
              ELSE restart([a EXCEPT !.aStart = bStart])
    ELSE IF /\ \/ IsAfter(a.aEnd, bStart)
               \/ (alsoMergeConsecutiveSelections /\ a.aEnd = bStart)
            /\ IsBeforeOrEqual(a.aEnd, bEnd)
    THEN restart([a EXCEPT !.aEnd = bEnd])
    ELSE skip

\* The outer loop of mergeOverlappingSelections, from index i on.  st holds
\* ignoreSelections and newSelections, and clusters: for each selection
\* pushed, the indices merged into it.
RECURSIVE MergeFrom(_, _, _, _)
MergeFrom(sels, alsoMergeConsecutiveSelections, i, st) ==
  IF i >= Len(sels) THEN st
  ELSE IF i \in st.ignore
  THEN MergeFrom(sels, alsoMergeConsecutiveSelections, i + 1, st)
  ELSE
    LET a == sels[i + 1]
        scanned ==
          MergeScan(sels, alsoMergeConsecutiveSelections, i, i + 1,
                    [aStart |-> StartOf(a), aEnd |-> EndOf(a),
                     aIsEmpty |-> StartOf(a) = EndOf(a), changed |-> FALSE,
                     ignore |-> st.ignore, new |-> st.new, hasNew |-> st.hasNew,
                     members |-> {i}])
        base == IF scanned.hasNew THEN scanned.new ELSE SubSeq(sels, 1, i)
    IN MergeFrom(sels, alsoMergeConsecutiveSelections, i + 1,
         [ignore |-> scanned.ignore,
          hasNew |-> scanned.changed \/ scanned.hasNew,
          new |-> IF scanned.changed
                  THEN Append(base, FromStartEnd(scanned.aStart, scanned.aEnd,
                                                 IsReversed(a)))
                  ELSE IF scanned.hasNew THEN Append(scanned.new, a)
                  ELSE scanned.new,
          clusters |-> Append(st.clusters, scanned.members)])

\* mergeOverlappingSelections(selections, alsoMergeConsecutiveSelections):
\* the array returned, and the indices merged into each of its elements.
MergeOverlappingSelections(sels, alsoMergeConsecutiveSelections) ==
  LET st == MergeFrom(sels, alsoMergeConsecutiveSelections, 0,
                      [ignore |-> {}, hasNew |-> FALSE, new |-> <<>>,
                       clusters |-> <<>>])
  IN [selections |-> IF st.hasNew THEN st.new ELSE sels,
      clusters |-> st.clusters]

\* Selections.mergeConsecutive without the flag.
MergeConsecutiveWithoutFlag(sels) == MergeOverlappingSelections(sels, FALSE)

\* Selections.mergeConsecutive
MergeConsecutive(sels) == MergeOverlappingSelections(sels, TRUE)

\* Selections.mergeOverlapping
MergeOverlapping(sels) == MergeOverlappingSelections(sels, FALSE)

----------------------------------------------------------------------------
\* Uses of the merge engine: a list of selections is merged, and the result
\* merged again.

\* Largest number of selections handed to the merge engine.
MaxMergeLen == 3

\* The positions of the selections handed to the merge engine: those of the
\* line "ab" and the start of the line after it.
MergePositions == {Pos(0, 0), Pos(0, 1), Pos(0, 2), Pos(1, 0)}

MergeSelections == {Sel(p, q) : p, q \in MergePositions}

InitMerge ==
  /\ RunnerInit(<<SelV(SelFoo)>>)
  /\ mode = NoMode
  /\ algebra = NoAlgebra
  /\ registers = NoRegisters
  /\ concurrent = NoConcurrent
  /\ \E sels \in SeqsUpTo(MergeSelections, MaxMergeLen) :
       merge = [stage |-> "input", selections |-> sels, consecutive |-> FALSE,
                merged |-> <<>>, clusters |-> <<>>, again |-> <<>>]

\* Selections.mergeOverlapping(selections)
MergeOverlappingCall ==
  /\ merge.stage = "input"
  /\ LET r == MergeOverlapping(merge.selections) IN
     merge' = [merge EXCEPT !.stage = "merged", !.consecutive = FALSE,
                            !.merged = r.selections, !.clusters = r.clusters]
  /\ UNCHANGED <<runnerVars, mode, algebra, registers, concurrent>>

\* Selections.mergeConsecutive(selections)
MergeConsecutiveCall ==
  /\ merge.stage = "input"
  /\ LET r == MergeConsecutive(merge.selections) IN
     merge' = [merge EXCEPT !.stage = "merged", !.consecutive = TRUE,
                            !.merged = r.selections, !.clusters = r.clusters]
  /\ UNCHANGED <<runnerVars, mode, algebra, registers, concurrent>>

\* The same merge applied to the array the first one returned.
MergeAgainCall ==
  /\ merge.stage = "merged"
  /\ merge' = [merge EXCEPT
                 !.stage = "again",
                 !.again = IF merge.consecutive
                           THEN MergeConsecutive(merge.merged).selections
                           ELSE MergeOverlapping(merge.merged).selections]
  /\ UNCHANGED <<runnerVars, mode, algebra, registers, concurrent>>

NextMerge ==
  \/ MergeOverlappingCall
  \/ MergeConsecutiveCall
  \/ MergeAgainCall

SpecMerge == InitMerge /\ [][NextMerge]_vars

----------------------------------------------------------------------------
\* Properties of the merge engine

Indices(seq) == 1..Len(seq)

IsEmptySel(s) == s.anchor = s.active

\* x and y have a character in common, or one is an empty selection strictly
\* inside the other, or they have the same start and end.
Overlaps(x, y) ==
  \/ IsBefore(StartOf(x), EndOf(y)) /\ IsBefore(StartOf(y), EndOf(x))
  \/ StartOf(x) = StartOf(y) /\ EndOf(x) = EndOf(y)

\* One of x and y ends exactly where the other starts.
Touches(x, y) == EndOf(x) = StartOf(y) \/ EndOf(y) = StartOf(x)

\* The positions from the start of s to its end, both included.
PositionsOf(s) ==
  {p \in MergePositions : IsBeforeOrEqual(StartOf(s), p) /\ IsBeforeOrEqual(p, EndOf(s))}

Covered(sels) == UNION {PositionsOf(sels[k]) : k \in Indices(sels)}

\* The lowest index of a cluster.
Lowest(cluster) == CHOOSE m \in cluster : \A n \in cluster : m <= n

\* C12: merging the result of a merge again, in the same mode, returns that
\* result (merge(merge(S)) = merge(S)), for every list S and both modes.
C12_MergeIdempotent ==
  merge.stage = "again" => merge.again = merge.merged

\* C13: no two selections of the output of mergeOverlappingSelections
\* overlap, and with the consecutive flag set no two of them touch.
C13_OutputDisjoint ==
  merge.stage = "merged" =>
    \A x, y \in Indices(merge.merged) :
      x # y =>
        /\ ~Overlaps(merge.merged[x], merge.merged[y])
        /\ merge.consecutive => ~Touches(merge.merged[x], merge.merged[y])

\* C14: the positions covered by the output of mergeOverlappingSelections
\* are those covered by its input, in either mode.
C14_MergeSound ==
  merge.stage = "merged" => Covered(merge.merged) = Covered(merge.selections)

\* Two non-empty selections of which one ends exactly where the other starts.
TouchingPair(sels) ==
  /\ Len(sels) = 2
  /\ ~IsEmptySel(sels[1]) /\ ~IsEmptySel(sels[2])
  /\ Touches(sels[1], sels[2])

\* C15: for two non-empty selections that touch without overlapping, in
\* either order, mergeOverlapping returns the input unchanged and
\* mergeConsecutive returns one selection from the earlier start to the
\* later end.
C15_TouchingPair ==
  (merge.stage = "merged" /\ TouchingPair(merge.selections)) =>
    LET x == merge.selections[1]
        y == merge.selections[2]
    IN IF merge.consecutive
       THEN /\ Len(merge.merged) = 1
            /\ StartOf(merge.merged[1]) =
                 IF IsBefore(StartOf(x), StartOf(y)) THEN StartOf(x) ELSE StartOf(y)
            /\ EndOf(merge.merged[1]) =
                 IF IsBefore(EndOf(x), EndOf(y)) THEN EndOf(y) ELSE EndOf(x)
       ELSE merge.merged = merge.selections

\* mergeConsecutive was given a touching pair with the later one first.
C15_Witness ==
  /\ merge.stage = "merged" /\ merge.consecutive
  /\ merge.selections = <<Sel(Pos(0, 1), Pos(0, 2)), Sel(Pos(0, 0), Pos(0, 1))>>
  /\ merge.merged = <<Sel(Pos(0, 0), Pos(0, 2))>>

----------------------------------------------------------------------------
\* Selections.toCharacterMode and Selections.fromCharacterMode

\* A document is the sequence of the lengths of its lines: line l has
\* document.lineAt(l).text.length = document[l + 1], and document.lineCount
\* is Len(document).

\* Lines.length(line, document): the length of the given line.
LinesLength(line, document) == document[line + 1]

\* toCharacterMode that never looks at the previous line.
ToCharacterModeSelectionWithinLine(selection, document) ==
  IF selection.anchor.line = selection.active.line
       /\ selection.anchor.character < selection.active.character
  THEN Sel(selection.anchor,
           Pos(selection.active.line, selection.active.character - 1))
  ELSE selection

\* The body of the loop of toCharacterMode, for one selection.
ToCharacterModeSelection(selection, document) ==
  LET selectionActive == selection.active
      selectionActiveLine == selectionActive.line
      selectionActiveCharacter == selectionActive.character
      selectionAnchor == selection.anchor
      selectionAnchorLine == selectionAnchor.line
      selectionAnchorCharacter == selectionAnchor.character
  IN
  IF selectionAnchorLine = selectionActiveLine
  THEN IF selectionAnchorCharacter + 1 = selectionActiveCharacter
       THEN Sel(selectionAnchor, selectionAnchor)
       ELSE IF selectionAnchorCharacter - 1 = selectionActiveCharacter
       THEN Sel(selectionActive, selectionActive)
       ELSE IF selectionAnchorCharacter < selectionActiveCharacter
       THEN Sel(selectionAnchor,
                Pos(selectionActiveLine, selectionActiveCharacter - 1))
       ELSE selection
  ELSE IF selectionAnchorLine < selectionActiveLine
  THEN IF selectionActiveCharacter > 0
       THEN Sel(selectionAnchor,
                Pos(selectionActiveLine, selectionActiveCharacter - 1))
       ELSE LET activePrevLine == selectionActiveLine - 1
                activePrevLineLength == document[activePrevLine + 1]
            IN Sel(selectionAnchor, Pos(activePrevLine, activePrevLineLength))
  ELSE IF /\ selectionAnchorLine = selectionActiveLine + 1
          /\ selectionAnchorCharacter = 0
          /\ selectionActiveCharacter = LinesLength(selectionActiveLine, document)
  THEN Sel(selectionActive, selectionActive)
  ELSE selection

\* toCharacterMode that returns every reversed selection as it is.
ToCharacterModeForwardOnly(sels, document) ==
  [k \in 1..Len(sels) |->
     IF IsBefore(sels[k].active, sels[k].anchor)
     THEN sels[k]
     ELSE ToCharacterModeSelection(sels[k], document)]

\* Selections.toCharacterMode(selections, document)
ToCharacterMode(sels, document) ==
  [k \in 1..Len(sels) |-> ToCharacterModeSelection(sels[k], document)]

\* fromCharacterMode that never goes to the next line.
FromCharacterModeSelectionWithinLine(selection, document) ==
  IF /\ \/ selection.anchor.line < selection.active.line
        \/ /\ selection.anchor.line = selection.active.line
           /\ selection.anchor.character <= selection.active.character
     /\ selection.active.character # document[selection.active.line + 1]
  THEN Sel(selection.anchor,
           Pos(selection.active.line, selection.active.character + 1))
  ELSE selection

\* The body of the loop of fromCharacterMode, for one selection.
FromCharacterModeSelection(selection, document) ==
  LET selectionActive == selection.active
      selectionActiveLine == selectionActive.line
      selectionActiveCharacter == selectionActive.character
      selectionAnchor == selection.anchor
      selectionAnchorLine == selectionAnchor.line
      selectionAnchorCharacter == selectionAnchor.character
      isEmptyOrForwardFacing ==
        \/ selectionAnchorLine < selectionActiveLine
        \/ /\ selectionAnchorLine = selectionActiveLine
           /\ selectionAnchorCharacter <= selectionActiveCharacter
      lineLength == document[selectionActiveLine + 1]
      lineCount == Len(document)
  IN
  IF isEmptyOrForwardFacing
  THEN IF selectionActiveCharacter = lineLength
       THEN IF selectionActiveLine + 1 < lineCount
            THEN Sel(selectionAnchor, Pos(selectionActiveLine + 1, 0))
            ELSE selection
       ELSE Sel(selectionAnchor,
                Pos(selectionActiveLine, selectionActiveCharacter + 1))
  ELSE selection

\* fromCharacterMode that also extends from the active position of a
\* reversed selection.
FromCharacterModeExtendsAll(sels, document) ==
  [k \in 1..Len(sels) |->
     FromCharacterModeSelection(
       Sel(StartOf(sels[k]), sels[k].active), document)]

\* Selections.fromCharacterMode(selections, document)
FromCharacterMode(sels, document) ==
  [k \in 1..Len(sels) |-> FromCharacterModeSelection(sels[k], document)]

----------------------------------------------------------------------------
\* Uses of the mode translator: selections of a document are translated to
\* character mode and back, or from character mode.

\* Largest number of lines of a document.
MaxLines == 2

\* Largest length of a line.
MaxLineLength == 2

Documents == UNION {[1..n -> 0..MaxLineLength] : n \in 1..MaxLines}

\* The positions of a document.
PositionsIn(document) ==
  UNION {{Pos(l - 1, c) : c \in 0..document[l]} : l \in 1..Len(document)}

InitMode ==
  /\ RunnerInit(<<SelV(SelFoo)>>)
  /\ merge = NoMerge
  /\ algebra = NoAlgebra
  /\ registers = NoRegisters
  /\ concurrent = NoConcurrent
  /\ \E document \in Documents :
       \E anchor, active \in PositionsIn(document) :
         \E sels \in {<<Sel(anchor, active)>>,
                      <<Sel(anchor, active), Sel(active, anchor)>>} :
           mode = [stage |-> "input", document |-> document,
                   selections |-> sels, current |-> sels]

\* Selections.toCharacterMode(selections, document)
ToCharacterModeCall ==
  /\ mode.stage = "input"
  /\ mode' = [mode EXCEPT !.stage = "character",
                          !.current = ToCharacterMode(mode.current, mode.document)]
  /\ UNCHANGED <<runnerVars, merge, algebra, registers, concurrent>>

\* Selections.fromCharacterMode(selections, document) on the selections
\* given, or on those toCharacterMode returned.
FromCharacterModeCall ==
  /\ mode.stage \in {"input", "character"}
  /\ mode' = [mode EXCEPT !.stage = IF mode.stage = "input" THEN "caret" ELSE "back",
                          !.current = FromCharacterMode(mode.current, mode.document)]
  /\ UNCHANGED <<runnerVars, merge, algebra, registers, concurrent>>

\* Direction.Forward and Direction.Backward
Directions == {"Forward", "Backward"}

\* fromCharacterMode with a direction that never reverses its result.
FromCharacterModeDirectedNeverReverses(sels, document, direction) ==
  FromCharacterMode(sels, document)

\* Selections.fromCharacterMode(selections, document, direction), the
\* variant with a direction.
FromCharacterModeDirected(sels, document, direction) ==
  [i \in 1..Len(sels) |->
     LET selection == sels[i]
         selectionActive == selection.active
         selectionAnchor == selection.anchor
         isEmptyOrForwardFacing ==
           \/ selectionAnchor.line < selectionActive.line
           \/ /\ selectionAnchor.line = selectionActive.line
              /\ selectionAnchor.character <= selectionActive.character
         lineLength == document[selectionActive.line + 1]
         atEndOfLine == selectionActive.character = lineLength
         changed ==
           /\ isEmptyOrForwardFacing
           /\ atEndOfLine => selectionActive.line + 1 < Len(document)
         active ==
           IF atEndOfLine
           THEN Pos(selectionActive.line + 1, 0)
           ELSE Pos(selectionActive.line, selectionActive.character + 1)
         reverse ==
           /\ direction = "Backward"
           /\ selectionActive.line = selectionAnchor.line
           /\ selectionActive.character = selectionAnchor.character
     IN IF ~changed THEN selection
        ELSE IF reverse THEN Sel(active, selectionAnchor)
        ELSE Sel(selectionAnchor, active)]

\* Selections.fromCharacterMode(selections, document, direction)
FromCharacterModeDirectionCall ==
  /\ mode.stage = "input"
  /\ \E direction \in Directions :
       mode' = [stage |-> "directed", document |-> mode.document,
                selections |-> mode.selections, direction |-> direction,
                current |-> FromCharacterModeDirected(mode.current, mode.document,
                                                      direction)]
  /\ UNCHANGED <<runnerVars, merge, algebra, registers, concurrent>>

NextMode ==
  \/ ToCharacterModeCall
  \/ FromCharacterModeCall
  \/ FromCharacterModeDirectionCall

SpecMode == InitMode /\ [][NextMode]_vars

----------------------------------------------------------------------------
\* Properties of the mode translator

\* The very last position of the buffer.
EndOfBuffer(document) == Pos(Len(document) - 1, document[Len(document)])

\* The position one character after p, which is not the end of the buffer.
NextPosition(p, document) ==
  IF p.character = document[p.line + 1]
  THEN Pos(p.line + 1, 0)
  ELSE Pos(p.line, p.character + 1)

\* The position one character before p, which is not the start of the buffer.
PreviousPosition(p, document) ==
  IF p.character = 0
  THEN Pos(p.line - 1, document[p.line])
  ELSE Pos(p.line, p.character - 1)

\* C17 as stated: the round trip returns every forward or empty selection
\* whose positions are not at the absolute end of the buffer.
C17_RoundTripForwardOrEmpty ==
  mode.stage = "back" =>
    \A k \in Indices(mode.selections) :
      LET s == mode.selections[k] IN
      (/\ IsBeforeOrEqual(s.anchor, s.active)
       /\ s.anchor # EndOfBuffer(mode.document)
       /\ s.active # EndOfBuffer(mode.document))
        => mode.current[k] = s

\* C17: fromCharacterMode(toCharacterMode([S])) returns S for every forward
\* non-empty S, the end of the buffer included; an empty S comes back
\* extended by one character, unless it is at the end of the buffer.
C17_RoundTripForward ==
  mode.stage = "back" =>
    \A k \in Indices(mode.selections) :
      LET s == mode.selections[k] IN
      /\ IsBefore(s.anchor, s.active) => mode.current[k] = s
      /\ (s.anchor = s.active /\ s.active # EndOfBuffer(mode.document))
           => mode.current[k] = Sel(s.anchor, NextPosition(s.active, mode.document))
      /\ (s.anchor = s.active /\ s.active = EndOfBuffer(mode.document))
           => mode.current[k] = s

\* A forward selection ending at column 0 of the last line, which is empty,
\* went to character mode and back.
C17_Witness ==
  /\ mode.stage = "back"
  /\ mode.document = <<1, 0>>
  /\ mode.selections[1] = Sel(Pos(0, 0), Pos(1, 0))
  /\ mode.current[1] = Sel(Pos(0, 0), Pos(1, 0))

\* C18: toCharacterMode maps every strictly forward selection to the one
\* with the same anchor and active one character back (the end of the
\* previous line when active is at column 0); one of length one becomes
\* empty at its anchor.
C18_ForwardShortened ==
  mode.stage = "character" =>
    \A k \in Indices(mode.selections) :
      LET s == mode.selections[k] IN
      IsBefore(s.anchor, s.active) =>
        /\ mode.current[k] = Sel(s.anchor, PreviousPosition(s.active, mode.document))
        /\ s.active = NextPosition(s.anchor, mode.document)
             => mode.current[k] = Sel(s.anchor, s.anchor)

\* A selection of one line break became empty at the end of the first line.
C18_Witness ==
  /\ mode.stage = "character"
  /\ mode.document = <<1, 1>>
  /\ mode.selections[1] = Sel(Pos(0, 1), Pos(1, 0))
  /\ mode.current[1] = Sel(Pos(0, 1), Pos(0, 1))

C20_ExtendedByOne ==
  mode.stage = "caret" =>
    \A k \in Indices(mode.selections) :
      LET s == mode.selections[k] IN
      mode.current[k] =
        IF IsBeforeOrEqual(s.anchor, s.active) /\ s.active # EndOfBuffer(mode.document)
        THEN Sel(s.anchor, NextPosition(s.active, mode.document))
        ELSE s

\* A forward selection ending at the end of the first line was extended
\* over the line break, and its reversed companion was returned as it was.
C20_Witness ==
  /\ mode.stage = "caret"
  /\ mode.document = <<1, 1>>
  /\ mode.selections = <<Sel(Pos(0, 0), Pos(0, 1)), Sel(Pos(0, 1), Pos(0, 0))>>
  /\ mode.current = <<Sel(Pos(0, 0), Pos(1, 0)), Sel(Pos(0, 1), Pos(0, 0))>>

\* C21: fromCharacterMode with direction Backward returns, for an empty
\* selection that it extended, the reversed one-character selection (anchor
\* at the next position, active at the original one); with direction
\* Forward, and for every non-empty forward selection, the extended result
\* keeps the anchor and faces forward.
C21_DirectionOfExtension ==
  mode.stage = "directed" =>
    \A k \in Indices(mode.selections) :
      LET s == mode.selections[k]
          next == NextPosition(s.active, mode.document)
      IN (IsBeforeOrEqual(s.anchor, s.active) /\ s.active # EndOfBuffer(mode.document))
           => mode.current[k] =
                IF mode.direction = "Backward" /\ s.anchor = s.active
                THEN Sel(next, s.active)
                ELSE Sel(s.anchor, next)

\* With direction Backward, an empty selection at the end of the first line
\* became the reversed selection of the line break.
C21_Witness ==
  /\ mode.stage = "directed" /\ mode.direction = "Backward"
  /\ mode.document = <<1, 1>>
  /\ mode.selections[1] = Sel(Pos(0, 1), Pos(0, 1))
  /\ mode.current[1] = Sel(Pos(1, 0), Pos(0, 1))

----------------------------------------------------------------------------
\* rotateSelections

\* The % of JavaScript on integers: the remainder has the sign of a.
Remainder(a, n) == IF a >= 0 THEN a % n ELSE -((-a) % n)

\* An element of new Array(len) that was never written.
Hole == Sel(Pos(-1, -1), Pos(-1, -1))

\* rotateSelections moving the selection at index i to index i - by.
RotateSelectionsBackwards(by, sels) ==
  [k \in 1..Len(sels) |-> sels[((k - 1 + by) % Len(sels)) + 1]]

\* The loop of rotateSelections from index i on: newSelections[(i + by) %
\* len] = selections[i].
RECURSIVE RotateFrom(_, _, _, _)
RotateFrom(by, sels, i, newSelections) ==
  IF i >= Len(sels) THEN newSelections
  ELSE RotateFrom(by, sels, i + 1,
                  [newSelections EXCEPT ![Remainder(i + by, Len(sels)) + 1] = sels[i + 1]])

\* rotateSelections(by, selections), for a non-empty array.
RotateSelections(by, sels) ==
  LET len == Len(sels)
      by2 == Remainder(by, len) + len
  IN IF by2 = len THEN sels
     ELSE RotateFrom(by2, sels, 0, [k \in 1..len |-> Hole])

----------------------------------------------------------------------------
\* Selections.endLine, Selections.endPosition, selectionsLines

\* Selections.endLine that always returns end.line.
EndLineOfEnd(selection) == EndOf(selection).line

\* Selections.endLine(selection)
EndLine(selection) ==
  LET startLine == StartOf(selection).line
      end == EndOf(selection)
  IN IF startLine # end.line /\ end.character = 0
     THEN end.line - 1
     ELSE end.line

\* Selections.endPosition(selection, document)
EndPosition(selection, document) ==
  LET line == EndLine(selection)
  IN IF line # EndOf(selection).line
     THEN Pos(line, document[line + 1])
     ELSE EndOf(selection)

\* lines.indexOf(line) === -1
NotIn(lines, line) == \A k \in 1..Len(lines) : lines[k] # line

\* selectionsLines that pushes the start and end lines without looking for
\* duplicates.
LinesFromUnchecked(sels, k, lines) ==
  LET line(n) ==
        LET startLine == StartOf(sels[n]).line
            endLine == EndLine(sels[n])
        IN [j \in 1..(endLine - startLine + 1) |-> startLine + j - 1]
      RECURSIVE all(_)
      all(n) == IF n > Len(sels) THEN <<>> ELSE line(n) \o all(n + 1)
  IN lines \o all(k)

\* The loop of selectionsLines from the k-th selection on.
RECURSIVE LinesFrom(_, _, _)
LinesFrom(sels, k, lines) ==
  IF k > Len(sels) THEN lines
  ELSE
    LET startLine == StartOf(sels[k]).line
        endLine == EndLine(sels[k])
        withStart == IF NotIn(lines, startLine) THEN Append(lines, startLine) ELSE lines
        withBetween ==
          withStart \o [j \in 1..(endLine - startLine - 1) |-> startLine + j]
        withEnd ==
          IF endLine # startLine /\ NotIn(withBetween, endLine)
          THEN Append(withBetween, endLine)
          ELSE withBetween
    IN LinesFrom(sels, k + 1, withEnd)

\* selectionsLines(selections)
SelectionsLines(sels) == LinesFrom(sels, 1, <<>>)

----------------------------------------------------------------------------
\* Selections.shift

\* Shift.Jump, Shift.Select, Shift.Extend
Shifts == {"Jump", "Select", "Extend"}

\* SelectionBehavior.Caret, SelectionBehavior.Character
SelectionBehaviors == {"Caret", "Character"}

\* Positions.previous(position, document): the position one character
\* before, or nothing (<<>>) at the start of the buffer.
PositionsPrevious(position, document) ==
  IF position.character > 0
  THEN <<Pos(position.line, position.character - 1)>>
  ELSE IF position.line > 0
  THEN <<Pos(position.line - 1, document[position.line])>>
  ELSE <<>>

\* Positions.next(position, document): the position one character after, or
\* nothing (<<>>) at the end of the buffer.
PositionsNext(position, document) ==
  IF position.character < document[position.line + 1]
  THEN <<Pos(position.line, position.character + 1)>>
  ELSE IF position.line + 1 < Len(document)
  THEN <<Pos(position.line + 1, 0)>>
  ELSE <<>>

\* value ?? position
OrElse(value, position) == IF value = <<>> THEN position ELSE value[1]

\* position === bound, for position one of selection.anchor and
\* selection.active and bound one of selection.start and selection.end: the
\* same object when the selection is not empty and the values are equal, and
\* either outcome (same) when it is empty.
IsSameObject(position, bound, selection, same) ==
  IF selection.anchor = selection.active THEN same ELSE position = bound

\* Selections.seekFrom(selection, direction, position, context)
SeekFrom(selection, direction, position, selectionBehavior, document, same) ==
  IF selectionBehavior = "Character"
  THEN IF direction = "Forward"
       THEN IF IsSameObject(position, StartOf(selection), selection, same)
            THEN position
            ELSE OrElse(PositionsPrevious(position, document), position)
       ELSE IF IsSameObject(position, EndOf(selection), selection, same)
            THEN position
            ELSE OrElse(PositionsNext(position, document), position)
  ELSE position

\* Selections.shift that keeps the old active position.
ShiftKeepsActive(selection, position, shift, selectionBehavior, document, same) ==
  Sel(IF shift = "Jump" THEN position ELSE selection.anchor, selection.active)

\* Selections.shift(selection, position, shift, context)
Shift(selection, position, shift, selectionBehavior, document, same) ==
  LET anchor == IF shift = "Jump" THEN position
                ELSE IF shift = "Select" THEN selection.active
                ELSE selection.anchor
      direction == IF IsAfter(anchor, position) THEN "Backward" ELSE "Forward"
  IN IF selectionBehavior = "Character" /\ shift # "Jump"
     THEN Sel(SeekFrom(selection, direction, anchor, selectionBehavior, document, same),
              position)
     ELSE Sel(anchor, position)

\* Selections.shift(selection, position, shift), the variant without a
\* context.
ShiftWithoutContext(selection, position, shift) ==
  IF shift = "Jump" THEN Sel(position, position)
  ELSE IF shift = "Select" THEN Sel(selection.active, position)
  ELSE Sel(selection.anchor, position)

----------------------------------------------------------------------------
\* Uses of rotateSelections, selectionsLines, Selections.endLine,
\* Selections.endPosition and Selections.shift

\* Largest number of selections handed to rotateSelections.
MaxRotateLen == 3

\* Largest absolute value of the argument by of rotateSelections.
MaxBy == 7

\* The selections of the example of rotateSelections: foo bar baz.
RotatePool ==
  {Sel(Pos(0, 0), Pos(0, 3)), Sel(Pos(0, 4), Pos(0, 7)), Sel(Pos(0, 8), Pos(0, 11))}

\* Largest line number of a selection handed to selectionsLines.
MaxLine == 3

\* Largest number of selections handed to selectionsLines.
MaxLinesLen == 2

\* The columns of the selections handed to selectionsLines: column 0, which
\* Selections.endLine tells from the others, and one other column.
LineColumns == {0, 1}

LinePositions == {Pos(l, c) : l \in 0..MaxLine, c \in LineColumns}

\* The forward selections over LinePositions.
LineSelections ==
  {Sel(pq[1], pq[2]) :
     pq \in {x \in LinePositions \X LinePositions : IsBeforeOrEqual(x[1], x[2])}}

\* No two selections of the list overlap.
PairwiseDisjoint(sels) ==
  \A x, y \in 1..Len(sels) : x # y => ~Overlaps(sels[x], sels[y])

\* The lists of at most n pairwise disjoint selections, in any order.
RECURSIVE DisjointLists(_)
DisjointLists(n) ==
  IF n = 0 THEN {<<>>}
  ELSE LET shorter == DisjointLists(n - 1)
           longest == {l \in shorter : Len(l) = n - 1}
           fits(l, x) == \A k \in 1..Len(l) : ~Overlaps(l[k], x)
       IN shorter \cup
          UNION {{Append(l, x) : x \in {y \in LineSelections : fits(l, y)}} : l \in longest}

\* The same selections facing backward.
Reversed(sels) == [k \in 1..Len(sels) |-> Sel(sels[k].active, sels[k].anchor)]

InitAlgebra ==
  /\ RunnerInit(<<SelV(SelFoo)>>)
  /\ merge = NoMerge
  /\ mode = NoMode
  /\ registers = NoRegisters
  /\ concurrent = NoConcurrent
  /\ \/ \E sels \in NonEmptySeqsUpTo(RotatePool, MaxRotateLen) :
          algebra = [stage |-> "rotate", selections |-> sels]
     \/ \E sels \in DisjointLists(MaxLinesLen) :
          \E given \in {sels, Reversed(sels)} :
            algebra = [stage |-> "lines", selections |-> given]
     \/ \E document \in Documents :
          \E anchor, active \in PositionsIn(document) :
            algebra = [stage |-> "selection", document |-> document,
                       selection |-> Sel(anchor, active)]

\* rotateSelections(by, selections)
RotateSelectionsCall ==
  /\ algebra.stage = "rotate"
  /\ \E by \in (-MaxBy)..MaxBy :
       algebra' = [stage |-> "rotated", by |-> by, given |-> algebra.selections,
                   selections |-> algebra.selections,
                   result |-> RotateSelections(by, algebra.selections)]
  /\ UNCHANGED <<runnerVars, merge, mode, registers, concurrent>>

\* selectionsLines(selections)
SelectionsLinesCall ==
  /\ algebra.stage = "lines"
  /\ algebra' = [stage |-> "listed", selections |-> algebra.selections,
                 result |-> SelectionsLines(algebra.selections)]
  /\ UNCHANGED <<runnerVars, merge, mode, registers, concurrent>>

\* Selections.endLine(selection)
EndLineCall ==
  /\ algebra.stage = "selection"
  /\ algebra' = [stage |-> "endLine", document |-> algebra.document,
                 selection |-> algebra.selection,
                 result |-> EndLine(algebra.selection)]
  /\ UNCHANGED <<runnerVars, merge, mode, registers, concurrent>>

\* Selections.endPosition(selection, document)
EndPositionCall ==
  /\ algebra.stage = "selection"
  /\ algebra' = [stage |-> "endPosition", document |-> algebra.document,
                 selection |-> algebra.selection,
                 result |-> EndPosition(algebra.selection, algebra.document)]
  /\ UNCHANGED <<runnerVars, merge, mode, registers, concurrent>>

\* Selections.shift(selection, position, shift, context)
ShiftCall ==
  /\ algebra.stage = "selection"
  /\ \E position \in PositionsIn(algebra.document), shift \in Shifts,
        selectionBehavior \in SelectionBehaviors, same \in BOOLEAN :
       algebra' = [stage |-> "shifted", document |-> algebra.document,
                   selection |-> algebra.selection, position |-> position,
                   shift |-> shift, selectionBehavior |-> selectionBehavior,
                   result |-> Shift(algebra.selection, position, shift,
                                    selectionBehavior, algebra.document, same)]
  /\ UNCHANGED <<runnerVars, merge, mode, registers, concurrent>>

\* Selections.shift(selection, position, shift), the variant without a
\* context.
ShiftWithoutContextCall ==
  /\ algebra.stage = "selection"
  /\ \E position \in PositionsIn(algebra.document), shift \in Shifts :
       algebra' = [stage |-> "shiftedWithoutContext", document |-> algebra.document,
                   selection |-> algebra.selection, position |-> position,
                   shift |-> shift,
                   result |-> ShiftWithoutContext(algebra.selection, position, shift)]
  /\ UNCHANGED <<runnerVars, merge, mode, registers, concurrent>>

NextAlgebra ==
  \/ RotateSelectionsCall
  \/ SelectionsLinesCall
  \/ EndLineCall
  \/ EndPositionCall
  \/ ShiftCall
  \/ ShiftWithoutContextCall

SpecAlgebra == InitAlgebra /\ [][NextAlgebra]_vars

----------------------------------------------------------------------------
\* Properties of rotateSelections, selectionsLines, endLine, endPosition and
\* shift

\* C22: for every integer by and every list of N >= 1 selections,
\* rotateSelections returns a list of length N in which the selection
\* originally at index i is at index (i + by) mod N, and leaves the input
\* list as it was.
C22_Rotation ==
  algebra.stage = "rotated" =>
    LET N == Len(algebra.given) IN
    /\ Len(algebra.result) = N
    /\ \A i \in 0..(N - 1) :
         algebra.result[((i + algebra.by) % N) + 1] = algebra.given[i + 1]
    /\ algebra.selections = algebra.given

\* rotateSelections(-1, [A, B, C]) returned [B, C, A].
C22_Witness ==
  /\ algebra.stage = "rotated" /\ algebra.by = -1
  /\ algebra.given = <<Sel(Pos(0, 0), Pos(0, 3)), Sel(Pos(0, 4), Pos(0, 7)),
                       Sel(Pos(0, 8), Pos(0, 11))>>
  /\ algebra.result = <<Sel(Pos(0, 4), Pos(0, 7)), Sel(Pos(0, 8), Pos(0, 11)),
                        Sel(Pos(0, 0), Pos(0, 3))>>

\* The lines a selection touches: from the line of its start to the line of
\* its end, less that last line when the selection is not empty and ends at
\* column 0 of a line after the one it starts on.
TouchedLines(s) ==
  LET last == IF /\ s.anchor # s.active
                 /\ EndOf(s).character = 0
                 /\ EndOf(s).line > StartOf(s).line
              THEN EndOf(s).line - 1
              ELSE EndOf(s).line
  IN StartOf(s).line..last

\* C23: for pairwise disjoint selections in any order, selectionsLines
\* returns every line touched by some selection exactly once.
C23_LinesOnce ==
  (algebra.stage = "listed" /\ PairwiseDisjoint(algebra.selections)) =>
    /\ {algebra.result[k] : k \in Indices(algebra.result)} =
         UNION {TouchedLines(algebra.selections[k]) : k \in Indices(algebra.selections)}
    /\ \A x, y \in Indices(algebra.result) :
         x # y => algebra.result[x] # algebra.result[y]

\* A selection over lines 1 to 3 came first, then one over lines 0 and 1:
\* line 2 was pushed unchecked and line 1 only once.
C23_Witness ==
  /\ algebra.stage = "listed"
  /\ algebra.selections = <<Sel(Pos(1, 1), Pos(3, 1)), Sel(Pos(0, 0), Pos(1, 1))>>
  /\ algebra.result = <<1, 2, 3, 0>>

\* The selection is not empty and ends at column 0 of a line after the one
\* it starts on.
EndsAtLineStart(s) ==
  /\ s.anchor # s.active
  /\ EndOf(s).character = 0
  /\ EndOf(s).line > StartOf(s).line

\* C24: for a non-empty selection ending at column 0 of a line after its
\* start line, endLine returns end.line - 1 and endPosition the end of that
\* previous line; for every other selection endLine returns end.line and
\* endPosition returns end.
C24_EndOfPreviousLine ==
  LET s == algebra.selection IN
  /\ algebra.stage = "endLine" =>
       algebra.result = IF EndsAtLineStart(s) THEN EndOf(s).line - 1 ELSE EndOf(s).line
  /\ algebra.stage = "endPosition" =>
       algebra.result = IF EndsAtLineStart(s)
                        THEN Pos(EndOf(s).line - 1, algebra.document[EndOf(s).line])
                        ELSE EndOf(s)

\* The end position of a reversed selection from 1:0 back to 0:1 was the end
\* of line 0, which has two characters.
C24_Witness ==
  /\ algebra.stage = "endPosition"
  /\ algebra.document = <<2, 1>>
  /\ algebra.selection = Sel(Pos(1, 0), Pos(0, 1))
  /\ algebra.result = Pos(0, 2)

\* C25: shift returns a selection whose active is the given position, for
\* every kind and mode; in Caret mode its anchor is the position for Jump,
\* the old active for Select and the old anchor for Extend; in Character
\* mode Jump gives anchor = active = position.
C25_Shift ==
  algebra.stage \in {"shifted", "shiftedWithoutContext"} =>
    LET caret == algebra.stage = "shifted" => algebra.selectionBehavior = "Caret" IN
    /\ algebra.result.active = algebra.position
    /\ algebra.shift = "Jump" => algebra.result.anchor = algebra.position
    /\ (caret /\ algebra.shift = "Select") =>
         algebra.result.anchor = algebra.selection.active
    /\ (caret /\ algebra.shift = "Extend") =>
         algebra.result.anchor = algebra.selection.anchor

\* In Caret mode, Select moved the anchor to the old active position.
C25_Witness ==
  /\ algebra.stage = "shifted"
  /\ algebra.selectionBehavior = "Caret" /\ algebra.shift = "Select"
  /\ algebra.document = <<1, 1>>
  /\ algebra.selection = Sel(Pos(0, 0), Pos(0, 1))
  /\ algebra.position = Pos(1, 1)
  /\ algebra.result = Sel(Pos(0, 1), Pos(1, 1))

----------------------------------------------------------------------------
\* Properties of the branches of mergeOverlappingSelections

\* C26: an empty selection followed by a non-empty candidate that does not
\* contain its position (it lies strictly before the candidate's start or
\* strictly after its end) stays a separate output selection.
C26_EmptyOutsideStaysApart ==
  (/\ merge.stage = "merged"
   /\ Len(merge.selections) = 2
   /\ IsEmptySel(merge.selections[1])
   /\ ~IsEmptySel(merge.selections[2])
   /\ \/ IsBefore(merge.selections[1].active, StartOf(merge.selections[2]))
      \/ IsAfter(merge.selections[1].active, EndOf(merge.selections[2])))
    => merge.merged = merge.selections

\* C27: a non-empty candidate wholly contained in a non-empty accumulator
\* before it is removed from the output, and the accumulator is output with
\* its span unchanged.
C27_ContainedCandidateRemoved ==
  (/\ merge.stage = "merged"
   /\ Len(merge.selections) = 2
   /\ ~IsEmptySel(merge.selections[1])
   /\ ~IsEmptySel(merge.selections[2])
   /\ IsBeforeOrEqual(StartOf(merge.selections[1]), StartOf(merge.selections[2]))
   /\ IsBeforeOrEqual(EndOf(merge.selections[2]), EndOf(merge.selections[1])))
    => merge.merged = <<merge.selections[1]>>

----------------------------------------------------------------------------
\* A pending call with other code running before its continuation: the
\* caller serializes nothing, so the array passed can be mutated and the
\* context's selections set by another command while the Thenables are
\* pending.

InitConcurrent ==
  /\ merge = NoMerge
  /\ mode = NoMode
  /\ algebra = NoAlgebra
  /\ registers = NoRegisters
  /\ concurrent = NoConcurrent
  /\ \E sels \in NonEmptySeqsUpTo(SelectionValues, MaxSelections) :
       RunnerInit(sels)

\* filterSelections.byIndex(predicate, selections), given an array holding
\* the current selections.
ConcurrentFilterCall ==
  /\ FilterSelectionsCall
  /\ concurrent' = [stage |-> "call", argument |-> selections, committed |-> FALSE]
  /\ UNCHANGED <<merge, mode, algebra, registers>>

\* updateSelections.byIndex(f)
ConcurrentUpdateCall ==
  /\ UpdateSelectionsCall
  /\ concurrent' = [stage |-> "call", argument |-> selections, committed |-> FALSE]
  /\ UNCHANGED <<merge, mode, algebra, registers>>

\* Other code replaces an element of the array passed to the pending
\* filterSelections.byIndex, the only call that reads the array it was
\* passed after its synchronous part.
ReplaceElement ==
  /\ pc = "pending"
  /\ op = "filter"
  /\ \E i \in 1..Len(concurrent.argument), v \in SelectionValues :
       /\ concurrent.argument[i] # v
       /\ concurrent' = [concurrent EXCEPT !.argument[i] = v]
  /\ UNCHANGED <<runnerVars, merge, mode, algebra, registers>>

\* Another command sets the context's selections (setSelections) while the
\* update is pending.
CommitByAnother ==
  /\ pc = "pending"
  /\ op = "update"
  /\ \E arr \in NonEmptySeqsUpTo(SelectionValues, MaxSelections) :
       selections' = SetSelections(arr, selections).selections
  /\ concurrent' = [concurrent EXCEPT !.committed = TRUE]
  /\ UNCHANGED <<revealLog, op, pc, f, input, before, callLog, settleLog,
                 scheduled, result, err, via, merge, mode, algebra, registers>>

NextConcurrent ==
  \/ ConcurrentFilterCall
  \/ ConcurrentUpdateCall
  \/ ReplaceElement
  \/ CommitByAnother
  \/ \E i \in 1..MaxSelections :
       Settle(i) /\ UNCHANGED <<merge, mode, algebra, registers, concurrent>>
  \/ Resume /\ UNCHANGED <<merge, mode, algebra, registers, concurrent>>
  \/ Return /\ UNCHANGED <<merge, mode, algebra, registers, concurrent>>

SpecConcurrent == InitConcurrent /\ [][NextConcurrent]_vars

----------------------------------------------------------------------------
\* Properties of a pending call with other code running

\* C28 as stated: an asynchronous update whose N results have all resolved
\* has written the context's selection set.
C28_WritesExactlyOnce ==
  (pc = "done" /\ op = "update" /\ via = "async" /\ AllOk)
    => /\ err = "none"
       /\ selections = result

\* C28: while an asynchronous update is pending the runner leaves the
\* context's selection set unchanged; its continuation runs after all results
\* have resolved (or one has rejected) and then writes the set once, over
\* whatever set is current, when no result rejected and some result is a
\* selection, and not at all otherwise.
C28_SingleWrite ==
  [][(pc = "pending" /\ op = "update") =>
       /\ (pc' = "pending" /\ settleLog' # settleLog) => selections' = selections
       /\ pc' = "done" =>
            /\ Rejected \/ Settled = Awaited
            /\ IF ~Rejected /\ Kept(ItemValues) # <<>>
               THEN /\ err' = "none"
                    /\ selections' = Kept(ItemValues)
                    /\ result' = Kept(ItemValues)
               ELSE /\ err' # "none"
                    /\ selections' = selections]_vars

\* An asynchronous update over two selections kept only the second result,
\* after another command had set the selections while it was pending.
C28_Witness ==
  /\ pc = "done" /\ op = "update" /\ via = "async" /\ err = "none"
  /\ concurrent.committed
  /\ before = <<SelV(SelFoo), SelV(SelNum)>>
  /\ f[1].val = Undefined /\ f[2].val = SelV(SelFoo)
  /\ selections = <<SelV(SelFoo)>>

\* The selections the array passed held when the call was made, at the
\* indices whose predicate gave true.
KeptAtCall ==
  LET RECURSIVE from(_)
      from(i) == IF i > Len(f) THEN <<>>
                 ELSE (IF f[i].val = BoolV(TRUE) THEN <<before[i]>> ELSE <<>>)
                        \o from(i + 1)
  IN from(1)

\* C29: the result of an asynchronous filterSelections.byIndex consists of
\* the selections the array passed held when the call was made, even when
\* elements of the array were replaced while the predicates were pending.
C29_FilterUsesSavedSelections ==
  (pc = "done" /\ op = "filter" /\ via = "async" /\ err = "none")
    => result = KeptAtCall

\* An asynchronous filter over two selections kept the one at index 1, which
\* had been replaced in the array passed while the predicates were pending.
C29_Witness ==
  /\ pc = "done" /\ op = "filter" /\ via = "async" /\ err = "none"
  /\ before = <<SelV(SelFoo), SelV(SelNum)>>
  /\ concurrent.argument = <<SelV(SelFoo), SelV(SelFoo)>>
  /\ f[1].val = BoolV(FALSE) /\ f[2].val = BoolV(TRUE)
  /\ result = <<SelV(SelNum)>>

----------------------------------------------------------------------------
\* RegisterSet

\* Strings are sequences of character codes.

\* A register object: what it was constructed as, the name it was given, and
\* for the registers that get creates the number of the creation (0 for
\* the registers the set is constructed with).
Register(kind, name, id) == [kind |-> kind, name |-> name, id |-> id]

\* The registers that are properties of the set, by property name.
Property(property) ==
  CASE property = "dquote" -> Register("clipboard", <<34>>, 0)
    [] property = "slash" -> Register("general", <<47>>, 0)
    [] property = "arobase" -> Register("general", <<64>>, 0)
    [] property = "caret" -> Register("general", <<94>>, 0)
    [] property = "pipe" -> Register("general", <<124>>, 0)
    [] property = "percent" -> Register("special", <<37>>, 0)
    [] property = "dot" -> Register("special", <<46>>, 0)
    [] property = "hash" -> Register("special", <<35>>, 0)
    [] property = "underscore" -> Register("special", <<95>>, 0)
    [] property = "colon" -> Register("special", <<58>>, 0)
    [] property = "null" -> Register("special", <<110, 117, 108, 108>>, 0)

\* The pairs [longName, register] the constructor goes through, in its order.
LongNames ==
  <<[longName |-> <<100, 113, 117, 111, 116, 101>>, register |-> Property("dquote")],
    [longName |-> <<115, 108, 97, 115, 104>>, register |-> Property("slash")],
    [longName |-> <<97, 114, 111, 98, 97, 115, 101>>, register |-> Property("arobase")],
    [longName |-> <<99, 97, 114, 101, 116>>, register |-> Property("caret")],
    [longName |-> <<112, 105, 112, 101>>, register |-> Property("pipe")],
    [longName |-> <<112, 101, 114, 99, 101, 110, 116>>, register |-> Property("percent")],
    [longName |-> <<100, 111, 116>>, register |-> Property("dot")],
    [longName |-> <<104, 97, 115, 104>>, register |-> Property("hash")],
    [longName |-> <<117, 110, 100, 101, 114, 115, 99, 111, 114, 101>>, register |-> Property("underscore")],
    [longName |-> <<99, 111, 108, 111, 110>>, register |-> Property("colon")]>>

\* _letters as first built: the general purpose registers a to z.
InitialLetters == [i \in 0..25 |-> Register("general", <<97 + i>>, 0)]

\* _digits: the registers 1 to 10.
Digits ==
  [i \in 0..9 |-> Register("special", IF i < 9 THEN <<49 + i>> ELSE <<49, 48>>, 0)]

\* The loop of the constructor from the k-th pair on, on _letters and _named.
RECURSIVE ConstructFrom(_, _, _)
ConstructFrom(k, letters, named) ==
  IF k > Len(LongNames) THEN [letters |-> letters, named |-> named]
  ELSE LET longName == LongNames[k].longName
           register == LongNames[k].register
       IN ConstructFrom(k + 1,
                        [letters EXCEPT ![longName[1] - 97] = register],
                        (longName :> register) @@ named)

\* new RegisterSet(): _letters, _digits and _named after the constructor.
Constructed ==
  LET looped == ConstructFrom(1, InitialLetters, <<>>)
  IN [letters |-> looped.letters,
      digits |-> Digits,
      named |-> (<<110, 117, 108, 108>> :> Property("null")) @@ (<<>> :> Property("null"))
                  @@ looped.named]

\* toLowerCase that returns the string as it is.
ToLowerCaseAsIs(key) == key

\* key.toLowerCase(), for strings of ASCII characters.
ToLowerCase(key) ==
  [k \in 1..Len(key) |-> IF key[k] >= 65 /\ key[k] <= 90 THEN key[k] + 32 ELSE key[k]]

\* get(key) on a set with the given _letters, _digits and _named, of which
\* `created` registers were created by earlier calls: the register returned,
\* and _named and the number of created registers afterwards.
Get(set, key) ==
  LET charCode == key[1]
      found(register) ==
        [register |-> register, named |-> set.named, created |-> set.created]
      lookup ==
        LET lower == ToLowerCase(key)
            name == ToLowerCase(lower)
        IN IF name \in DOMAIN set.named
           THEN found(set.named[name])
           ELSE LET register == Register("general", lower, set.created + 1)
                IN [register |-> register,
                    named |-> (lower :> register) @@ set.named,
                    created |-> set.created + 1]
  IN IF Len(key) = 1
     THEN CASE charCode = 34 -> found(Property("dquote"))
            [] charCode = 47 -> found(Property("slash"))
            [] charCode = 64 -> found(Property("arobase"))
            [] charCode = 94 -> found(Property("caret"))
            [] charCode = 124 -> found(Property("pipe"))
            [] charCode = 37 -> found(Property("percent"))
            [] charCode = 46 -> found(Property("dot"))
            [] charCode = 35 -> found(Property("hash"))
            [] charCode = 95 -> found(Property("underscore"))
            [] charCode = 58 -> found(Property("colon"))
            [] OTHER ->
                 IF charCode >= 97 /\ charCode <= 122
                 THEN found(set.letters[charCode - 97])
                 ELSE IF charCode >= 65 /\ charCode <= 90
                 THEN found(set.letters[charCode - 65])
                 ELSE IF charCode >= 49 /\ charCode <= 57
                 THEN found(set.digits[charCode - 49])
                 ELSE lookup
     ELSE lookup

\* The number of calls of get in a behaviour.
MaxGets == 4

\* The keys get is called with: d, D, a, 1, 0, ", the empty string, foo, FOO,
\* Foo, dot and DOT.
Keys ==
  {<<100>>,
   <<68>>,
   <<97>>,
   <<49>>,
   <<48>>,
   <<34>>,
   <<>>,
   <<102, 111, 111>>,
   <<70, 79, 79>>,
   <<70, 111, 111>>,
   <<100, 111, 116>>,
   <<68, 79, 84>>}

InitRegisters ==
  /\ RunnerInit(<<SelV(SelFoo)>>)
  /\ merge = NoMerge
  /\ mode = NoMode
  /\ algebra = NoAlgebra
  /\ concurrent = NoConcurrent
  /\ registers = [stage |-> "set",
                  letters |-> Constructed.letters,
                  digits |-> Constructed.digits,
                  named |-> Constructed.named,
                  created |-> 0,
                  log |-> <<>>]

\* registers.get(key); the log keeps each call's key and the register returned.
GetCall ==
  /\ registers.stage = "set"
  /\ Len(registers.log) < MaxGets
  /\ \E key \in Keys :
       LET got == Get(registers, key)
       IN registers' = [registers EXCEPT
                          !.named = got.named,
                          !.created = got.created,
                          !.log = Append(@, [key |-> key, register |-> got.register])]
  /\ UNCHANGED <<runnerVars, merge, mode, algebra, concurrent>>

NextRegisters == GetCall

SpecRegisters == InitRegisters /\ [][NextRegisters]_vars

----------------------------------------------------------------------------
\* Properties of RegisterSet.get

IsUpperCaseLetter(charCode) == charCode >= 65 /\ charCode <= 90

IsLetter(charCode) ==
  IsUpperCaseLetter(charCode) \/ (charCode >= 97 /\ charCode <= 122)

\* The string with each upper case letter replaced by its lower case letter.
Folded(key) ==
  [k \in 1..Len(key) |-> IF IsUpperCaseLetter(key[k]) THEN key[k] + 32 ELSE key[k]]

\* The two keys are the same key, the same letter in either case, or the same
\* multi-character name in any letter case.
SameKey(a, b) ==
  \/ a = b
  \/ Len(a) = 1 /\ Len(b) = 1 /\ IsLetter(a[1]) /\ Folded(a) = Folded(b)
  \/ Len(a) > 1 /\ Len(b) > 1 /\ Folded(a) = Folded(b)

\* The key is a name that no call before the i-th was given and that the set
\* was not constructed with.
NotSeenBefore(i) ==
  LET key == registers.log[i].key
  IN /\ Len(key) > 1
     /\ Folded(key) \notin DOMAIN Constructed.named
     /\ \A j \in 1..(i - 1) : Folded(registers.log[j].key) # Folded(key)

\* The registers returned so far that get created.
CreatedRegisters ==
  {registers.log[i].register : i \in {j \in DOMAIN registers.log : registers.log[j].register.id > 0}}

\* C30: after any sequence of get calls, two calls with the same key, with the
\* same letter in lower and upper case, or with the same multi-character name
\* in any letter case returned the same register object; a call with a name
\* not seen before returned a general purpose register that no earlier call
\* returned and that is the only register created for that name, and every
\* later call with that name returned it.
C30_SameRegister ==
  registers.stage = "set" =>
    LET log == registers.log
    IN /\ \A i, j \in DOMAIN log :
            SameKey(log[i].key, log[j].key) => log[i].register = log[j].register
       /\ \A i \in DOMAIN log :
            NotSeenBefore(i) =>
              /\ log[i].register.kind = "general"
              /\ log[i].register.name = Folded(log[i].key)
              /\ \A j \in 1..(i - 1) : log[j].register # log[i].register
              /\ Cardinality({r \in CreatedRegisters : r.name = Folded(log[i].key)}) = 1
              /\ \A j \in DOMAIN log :
                   (j > i /\ Folded(log[j].key) = Folded(log[i].key))
                     => log[j].register = log[i].register
       /\ Cardinality(DOMAIN registers.named)
            = Cardinality(DOMAIN Constructed.named) + Cardinality(CreatedRegisters)

\* Witness for C30: FOO, foo, D and d were asked for in that order; the first
\* call created the register foo, the second returned it, and D and d both
\* returned the register of _letters[3].
C30_Witness ==
  /\ registers.stage = "set"
  /\ Len(registers.log) = 4
  /\ registers.log[1].key = <<70, 79, 79>>
  /\ registers.log[2].key = <<102, 111, 111>>
  /\ registers.log[3].key = <<68>>
  /\ registers.log[4].key = <<100>>
  /\ registers.log[1].register = Register("general", <<102, 111, 111>>, 1)
  /\ registers.log[2].register = registers.log[1].register
  /\ registers.log[3].register = registers.log[4].register
  /\ registers.created = 1

====
